---- MODULE Spec2Model ----
(***************************************************************************)
(* Access-control panel (PaineldeControle.c): a GPIO interrupt handler     *)
(* debounces three buttons and signals three FreeRTOS tasks through binary *)
(* semaphores; the tasks give, take and drain a counting semaphore that    *)
(* holds the occupancy, publish it in g_num_usuarios_ativos and drive the  *)
(* buzzer, the RGB LED and the OLED display.                               *)
(*                                                                         *)
(* Scheduling is the one main() configures: one core, preemptive, Entrada  *)
(* and Saida at priority 3 (time-sliced against each other), Reset at      *)
(* priority 4, priority inheritance on xDisplayMutex. Every access to a    *)
(* shared object is one step, so a task can be preempted between any two.  *)
(* The millisecond clock is a 32-bit value kept as two 16-bit halves.      *)
(***************************************************************************)
EXTENDS Integers, Naturals, Sequences, FiniteSets, TLC

\* ---------------------------------------------------------------- constants
MAX_USUARIOS == 9
DEBOUNCE_DELAY_MS == 200
BOTAO_ENTRADA == 5
BOTAO_SAIDA == 6
BOTAO_RESET == 22
PRIO_ENTRADA == 3
PRIO_SAIDA == 3
PRIO_RESET == 4
TOM_CHEIO_HZ == 500
TOM_CHEIO_MS == 100
TOM_RESET_HZ == 1500
TOM_RESET_MS == 100
PAUSA_RESET_MS == 50
COOLDOWN_RESET_MS == 500
\* one half of a uint32_t
HALF == 65536

\* ------------------------------------------------------------------- bounds
TickMs == 50
MaxTime == 1000
MaxEdges == 2
MaxTotal == 2
MaxEntradas == 10
MaxTimeEntrada == 2750
MaxSaidas == 3
MaxResets == 3

Gpios == {BOTAO_ENTRADA, BOTAO_SAIDA, BOTAO_RESET}
Tasks == {"Entrada", "Saida", "Reset"}
\* the occupancies a quiescent panel is started from
InitCounts == {0, MAX_USUARIOS}
\* the clock advances by TickMs while a sleep_ms runs and by LongTick otherwise
LongTick == 5 * TickMs

VARIABLES
  now,                 \* to_ms_since_boot(get_absolute_time()), uint32 as <<hi, lo>>
  uptime,              \* ms the model has run for (bounds the clock)
  last_debounce_time,  \* gpio -> uint32: last_debounce_time_entrada/_saida/_reset
  xEventSem,           \* gpio -> 0..1: xEntradaSem, xSaidaSem, xResetSem
  xUsuariosSem,        \* count of the counting semaphore
  g_num_usuarios_ativos,
  xDisplayMutex,       \* holder of the mutex, or "none"
  pc,                  \* task -> position in its loop
  result,              \* vTaskEntrada: result of xSemaphoreGive(xUsuariosSem)
  count_read,          \* task -> value uxSemaphoreGetCount returned, not yet stored
  delay,               \* task -> ms left of its sleep_ms / vTaskDelay
  buzzer,              \* frequency sounding, 0 when stopped
  led,                 \* colour of the RGB LED
  ssd,                 \* frame buffer being drawn
  oled,                \* frame last sent to the display
  edgesLeft,           \* falling edges still to come: per gpio, and in all
  prevEdge,            \* gpio -> the previous edge: its time and whether accepted
  accepted,            \* gpio -> edges accepted by the debounce test so far
  raises,              \* gpio -> raises of the channel since its task last took it
  initial,             \* occupancy at the start
  entriesSinceReset,   \* successful gives since the last completed drain, -1 before
  cooldownRaise,       \* xResetSem was raised during the current cooldown delay
  refreshes,           \* task -> signals taken, LED updates and display updates made
  elapsed              \* gpio -> ms the clock has run since the source's timestamp

hw == <<buzzer, led, ssd, oled>>
history == <<prevEdge, accepted, raises, initial, entriesSinceReset, cooldownRaise>>
ghost == <<history, refreshes, elapsed>>
vars == <<now, uptime, last_debounce_time, xEventSem, xUsuariosSem,
          g_num_usuarios_ativos, xDisplayMutex, pc, result, count_read, delay,
          buzzer, led, ssd, oled, edgesLeft,
          prevEdge, accepted, raises, initial, entriesSinceReset, cooldownRaise,
          refreshes, elapsed>>

Min(a, b) == IF a < b THEN a ELSE b
Max(a, b) == IF a > b THEN a ELSE b

\* ------------------------------------------------------- uint32 arithmetic
U32Add(a, n) ==
  LET lo == a[2] + n
  IN  <<(a[1] + (lo \div HALF)) % HALF, lo % HALF>>

\* a - b in uint32_t: the difference modulo 2^32
U32Sub(a, b) ==
  LET lo == a[2] - b[2]
      borrow == IF lo < 0 THEN 1 ELSE 0
  IN  <<(a[1] - b[1] - borrow + HALF) % HALF, (lo + HALF) % HALF>>

\* a > n for a uint32 a and a small constant n
U32Gt(a, n) == a[1] > 0 \/ a[2] > n

\* ---------------------------------------------------------------- debounce
DebounceGe(t, last) ==
  LET d == U32Sub(t, last) IN d[1] > 0 \/ d[2] >= DEBOUNCE_DELAY_MS

DebounceNoWrap(t, last) ==
  LET due == U32Add(last, DEBOUNCE_DELAY_MS)
  IN  t[1] > due[1] \/ (t[1] = due[1] /\ t[2] > due[2])

\* current_time_ms - last_debounce_time_x > DEBOUNCE_DELAY_MS
DebounceAccept(t, last) == U32Gt(U32Sub(t, last), DEBOUNCE_DELAY_MS)

\* ------------------------------------------------------ FreeRTOS semaphores
GiveUnbounded(count, max) == [ok |-> TRUE, count |-> count + 1]

GiveOffByOne(count, max) ==
  IF count <= max THEN [ok |-> TRUE, count |-> count + 1]
  ELSE [ok |-> FALSE, count |-> count]

\* xSemaphoreGive / xSemaphoreGiveFromISR on a semaphore of maximum count max
SemGive(count, max) ==
  IF count < max THEN [ok |-> TRUE, count |-> count + 1]
  ELSE [ok |-> FALSE, count |-> count]

TakeUnderflow(count) == [ok |-> TRUE, count |-> count - 1]

\* xSemaphoreTake(sem, 0): no block time
SemTake(count) ==
  IF count > 0 THEN [ok |-> TRUE, count |-> count - 1]
  ELSE [ok |-> FALSE, count |-> count]

\* ---------------------------------------------------------------- feedback
\* the label atualizar_feedback_display draws and the colour
\* atualizar_feedback_led_rgb sets when g_num_usuarios_ativos holds n throughout
StatusOf(n) ==
  IF n = 0 THEN "VACANT" ELSE IF n < MAX_USUARIOS THEN "OK" ELSE "FULL"

ColorOf(n) ==
  IF n = 0 THEN "BLUE"
  ELSE IF n > 0 /\ n <= MAX_USUARIOS - 2 THEN "GREEN"
  ELSE IF n = MAX_USUARIOS - 1 THEN "AMBER"
  ELSE "RED"

\* -------------------------------------------------------------------- Init
\* the clock reads stamp + gap, for a gap in gaps, and every source's timestamp
\* is stamp
InitAt(counts, edges, stamp, gaps) ==
  /\ \E gap \in gaps :
       /\ now = U32Add(stamp, gap)
       /\ elapsed = [g \in Gpios |-> gap]
  /\ uptime = 0
  /\ last_debounce_time = [g \in Gpios |-> stamp]
  /\ xEventSem = [g \in Gpios |-> 0]
  /\ xUsuariosSem \in counts
  /\ g_num_usuarios_ativos = xUsuariosSem
  /\ xDisplayMutex = "none"
  /\ pc = [t \in Tasks |-> "wait"]
  /\ result = "none"
  /\ count_read = [t \in Tasks |-> 0]
  /\ delay = [t \in Tasks |-> 0]
  /\ buzzer = 0
  /\ led = ColorOf(xUsuariosSem)
  /\ ssd = [users |-> xUsuariosSem, status |-> StatusOf(xUsuariosSem)]
  /\ oled = ssd
  /\ edgesLeft = edges
  /\ prevEdge = [g \in Gpios |-> <<>>]
  /\ accepted = [g \in Gpios |-> 0]
  /\ raises = [g \in Gpios |-> 0]
  /\ initial = xUsuariosSem
  /\ entriesSinceReset = -1
  /\ cooldownRaise = FALSE
  /\ refreshes = [t \in Tasks |-> [taken |-> 0, led |-> 0, oled |-> 0]]

\* lines 66-68: the timestamps start at 0, and so does the clock
InitWith(counts, edges) == InitAt(counts, edges, <<0, 0>>, {0})

\* main(): the state when vTaskStartScheduler runs. An occupancy above 0 stands
\* for the quiescent state after that many serviced entries (the debounce test
\* reads only differences of the clock, which wraps).
Init == InitWith(InitCounts, [per |-> [g \in Gpios |-> MaxEdges], total |-> MaxTotal])

\* ---------------------------------------------------------------- scheduler
TaskSem(t) ==
  IF t = "Entrada" THEN BOTAO_ENTRADA
  ELSE IF t = "Saida" THEN BOTAO_SAIDA ELSE BOTAO_RESET

EqualPrio(t) == PRIO_ENTRADA

\* lines 309-311: the priorities given to xTaskCreate
BasePrio(t) ==
  IF t = "Entrada" THEN PRIO_ENTRADA
  ELSE IF t = "Saida" THEN PRIO_SAIDA ELSE PRIO_RESET

BlockedNoMutex(t) ==
  \/ pc[t] = "wait" /\ xEventSem[TaskSem(t)] = 0
  \/ pc[t] = "cooldown" /\ delay[t] > 0

\* a task in the Blocked state: xSemaphoreTake(..., portMAX_DELAY) on an empty
\* semaphore or a held mutex, or vTaskDelay that has not expired
Blocked(t) ==
  \/ pc[t] = "wait" /\ xEventSem[TaskSem(t)] = 0
  \/ pc[t] = "disp136" /\ xDisplayMutex # "none"
  \/ pc[t] = "cooldown" /\ delay[t] > 0

\* a task busy-waiting in sleep_ms: it keeps the processor
Spinning(t) ==
  pc[t] \in {"beep", "tone1", "pause", "tone2"} /\ delay[t] > 0

\* priority inheritance: the holder of xDisplayMutex runs at the priority of
\* the highest task blocked on it
EffPrio(t) ==
  IF xDisplayMutex = t
  THEN LET waiters == {u \in Tasks : pc[u] = "disp136"}
           top == {BasePrio(u) : u \in waiters} \cup {BasePrio(t)}
       IN  CHOOSE p \in top : \A q \in top : q <= p
  ELSE BasePrio(t)

\* the scheduler may run t: it is ready and no ready task has a higher priority
Runnable(t) ==
  /\ ~Blocked(t)
  /\ \A u \in Tasks : ~Blocked(u) => EffPrio(u) <= EffPrio(t)

CanStep(t) == Runnable(t) /\ ~Spinning(t)


Goto(t, l) == pc' = [pc EXCEPT ![t] = l]

\* ------------------------------------------------------ interrupt dispatcher
SharedDebounce(gpio) ==
  /\ edgesLeft.per[gpio] > 0 /\ edgesLeft.total > 0
  /\ edgesLeft' = [per |-> [edgesLeft.per EXCEPT ![gpio] = @ - 1],
                   total |-> edgesLeft.total - 1]
  /\ LET ok == DebounceAccept(now, last_debounce_time[gpio])
         given == SemGive(xEventSem[gpio], 1)
     IN  /\ last_debounce_time' =
              IF ok THEN [g \in Gpios |-> now]
              ELSE last_debounce_time
         /\ xEventSem' =
              IF ok THEN [xEventSem EXCEPT ![gpio] = given.count] ELSE xEventSem
         /\ prevEdge' = [prevEdge EXCEPT ![gpio] = <<now, ok>>]
         /\ accepted' = IF ok THEN [accepted EXCEPT ![gpio] = @ + 1] ELSE accepted
         /\ raises' = IF ok THEN [raises EXCEPT ![gpio] = @ + 1] ELSE raises
         /\ cooldownRaise' =
              (cooldownRaise \/ (ok /\ gpio = BOTAO_RESET /\ pc["Reset"] = "cooldown"))
         /\ elapsed' = IF ok THEN [elapsed EXCEPT ![gpio] = 0] ELSE elapsed
  /\ UNCHANGED <<now, uptime, xUsuariosSem, g_num_usuarios_ativos, xDisplayMutex,
                 pc, result, count_read, delay, hw, initial, entriesSinceReset,
                 refreshes>>

\* gpio_irq_handler(gpio, events): the branch of the if / else-if chain that
\* names gpio is the only one whose first conjunct holds
gpio_irq_handler(gpio) ==
  /\ edgesLeft.per[gpio] > 0 /\ edgesLeft.total > 0
  /\ edgesLeft' = [per |-> [edgesLeft.per EXCEPT ![gpio] = @ - 1],
                   total |-> edgesLeft.total - 1]
  /\ LET ok == DebounceAccept(now, last_debounce_time[gpio])
         given == SemGive(xEventSem[gpio], 1)
     IN  /\ last_debounce_time' =
              IF ok THEN [last_debounce_time EXCEPT ![gpio] = now]
              ELSE last_debounce_time
         /\ xEventSem' =
              IF ok THEN [xEventSem EXCEPT ![gpio] = given.count] ELSE xEventSem
         /\ prevEdge' = [prevEdge EXCEPT ![gpio] = <<now, ok>>]
         /\ accepted' = IF ok THEN [accepted EXCEPT ![gpio] = @ + 1] ELSE accepted
         /\ raises' = IF ok THEN [raises EXCEPT ![gpio] = @ + 1] ELSE raises
         /\ cooldownRaise' =
              (cooldownRaise \/ (ok /\ gpio = BOTAO_RESET /\ pc["Reset"] = "cooldown"))
         /\ elapsed' = IF ok THEN [elapsed EXCEPT ![gpio] = 0] ELSE elapsed
  /\ UNCHANGED <<now, uptime, xUsuariosSem, g_num_usuarios_ativos, xDisplayMutex,
                 pc, result, count_read, delay, hw, initial, entriesSinceReset,
                 refreshes>>

\* ------------------------------------------------------------- vTaskEntrada
\* line 178: xSemaphoreTake(xEntradaSem, portMAX_DELAY) returns
\* (line 179 stores prev_num_usuarios_for_beep, which is never read)
EntradaTake ==
  /\ CanStep("Entrada") /\ pc["Entrada"] = "wait"
  /\ xEventSem' = [xEventSem EXCEPT ![BOTAO_ENTRADA] = SemTake(@).count]
  /\ raises' = [raises EXCEPT ![BOTAO_ENTRADA] = 0]
  /\ refreshes' = [refreshes EXCEPT !["Entrada"].taken = @ + 1]
  /\ Goto("Entrada", "give")
  /\ UNCHANGED <<now, uptime, last_debounce_time, xUsuariosSem,
                 g_num_usuarios_ativos, xDisplayMutex, result, count_read, delay,
                 hw, edgesLeft, prevEdge, accepted, initial, entriesSinceReset,
                 cooldownRaise, elapsed>>

EntradaGiveUnchecked ==
  /\ CanStep("Entrada") /\ pc["Entrada"] = "give"
  /\ xUsuariosSem' = SemGive(xUsuariosSem, MAX_USUARIOS).count
  /\ result' = "pdPASS"
  /\ entriesSinceReset' =
       IF entriesSinceReset >= 0 THEN entriesSinceReset + 1 ELSE entriesSinceReset
  /\ Goto("Entrada", "get")
  /\ UNCHANGED <<now, uptime, last_debounce_time, xEventSem,
                 g_num_usuarios_ativos, xDisplayMutex, count_read, delay, hw,
                 edgesLeft, prevEdge, accepted, raises, initial, cooldownRaise,
                 refreshes, elapsed>>

\* line 182: result = xSemaphoreGive(xUsuariosSem)
EntradaGive ==
  /\ CanStep("Entrada") /\ pc["Entrada"] = "give"
  /\ LET r == SemGive(xUsuariosSem, MAX_USUARIOS)
     IN  /\ xUsuariosSem' = r.count
         /\ result' = IF r.ok THEN "pdPASS" ELSE "pdFAIL"
         /\ entriesSinceReset' =
              IF r.ok /\ entriesSinceReset >= 0 THEN entriesSinceReset + 1
              ELSE entriesSinceReset
  /\ Goto("Entrada", "get")
  /\ UNCHANGED <<now, uptime, last_debounce_time, xEventSem,
                 g_num_usuarios_ativos, xDisplayMutex, count_read, delay, hw,
                 edgesLeft, prevEdge, accepted, raises, initial, cooldownRaise,
                 refreshes, elapsed>>

\* lines 183 and 212, first half: uxSemaphoreGetCount(xUsuariosSem) returns
GetCount(t) ==
  /\ t \in {"Entrada", "Saida"}
  /\ CanStep(t) /\ pc[t] = "get"
  /\ count_read' = [count_read EXCEPT ![t] = xUsuariosSem]
  /\ Goto(t, "store")
  /\ UNCHANGED <<now, uptime, last_debounce_time, xEventSem, xUsuariosSem,
                 g_num_usuarios_ativos, xDisplayMutex, result, delay, hw,
                 edgesLeft, ghost>>

\* lines 183 and 212, second half: the value is stored in g_num_usuarios_ativos
StoreCount(t) ==
  /\ t \in {"Entrada", "Saida"}
  /\ CanStep(t) /\ pc[t] = "store"
  /\ g_num_usuarios_ativos' = count_read[t] % 256
  /\ count_read' = [count_read EXCEPT ![t] = 0]
  /\ Goto(t, IF t = "Entrada" THEN "if" ELSE "led157")
  /\ UNCHANGED <<now, uptime, last_debounce_time, xEventSem, xUsuariosSem,
                 xDisplayMutex, result, delay, hw, edgesLeft, ghost>>

RejectedAtMax == g_num_usuarios_ativos = MAX_USUARIOS

\* the condition of line 186
Rejected == result = "pdFAIL" /\ g_num_usuarios_ativos = MAX_USUARIOS

\* lines 186-190: the test, buzzer_set_freq(500) and the start of sleep_ms(100)
EntradaIf ==
  /\ CanStep("Entrada") /\ pc["Entrada"] = "if"
  /\ IF Rejected
     THEN /\ buzzer' = TOM_CHEIO_HZ
          /\ delay' = [delay EXCEPT !["Entrada"] = TOM_CHEIO_MS]
          /\ Goto("Entrada", "beep")
     ELSE /\ UNCHANGED <<buzzer, delay>>
          /\ Goto("Entrada", "led157")
  /\ UNCHANGED <<now, uptime, last_debounce_time, xEventSem, xUsuariosSem,
                 g_num_usuarios_ativos, xDisplayMutex, result, count_read, led,
                 ssd, oled, edgesLeft, ghost>>

EntradaBeepEndNoStop ==
  /\ CanStep("Entrada") /\ pc["Entrada"] = "beep"
  /\ Goto("Entrada", "led157")
  /\ UNCHANGED <<now, uptime, last_debounce_time, xEventSem, xUsuariosSem,
                 g_num_usuarios_ativos, xDisplayMutex, result, count_read, delay,
                 hw, edgesLeft, ghost>>

\* lines 190-191: sleep_ms(100) is over, buzzer_stop
EntradaBeepEnd ==
  /\ CanStep("Entrada") /\ pc["Entrada"] = "beep"
  /\ buzzer' = 0
  /\ Goto("Entrada", "led157")
  /\ UNCHANGED <<now, uptime, last_debounce_time, xEventSem, xUsuariosSem,
                 g_num_usuarios_ativos, xDisplayMutex, result, count_read, delay,
                 led, ssd, oled, edgesLeft, ghost>>

\* --------------------------------------------------------------- vTaskSaida
\* line 207: xSemaphoreTake(xSaidaSem, portMAX_DELAY) returns
SaidaTake ==
  /\ CanStep("Saida") /\ pc["Saida"] = "wait"
  /\ xEventSem' = [xEventSem EXCEPT ![BOTAO_SAIDA] = SemTake(@).count]
  /\ raises' = [raises EXCEPT ![BOTAO_SAIDA] = 0]
  /\ refreshes' = [refreshes EXCEPT !["Saida"].taken = @ + 1]
  /\ Goto("Saida", "take")
  /\ UNCHANGED <<now, uptime, last_debounce_time, xUsuariosSem,
                 g_num_usuarios_ativos, xDisplayMutex, result, count_read, delay,
                 hw, edgesLeft, prevEdge, accepted, initial, entriesSinceReset,
                 cooldownRaise, elapsed>>

SaidaTakeOrSkip ==
  /\ CanStep("Saida") /\ pc["Saida"] = "take"
  /\ xUsuariosSem' = SemTake(xUsuariosSem).count
  /\ Goto("Saida", IF SemTake(xUsuariosSem).ok THEN "get" ELSE "wait")
  /\ UNCHANGED <<now, uptime, last_debounce_time, xEventSem,
                 g_num_usuarios_ativos, xDisplayMutex, result, count_read, delay,
                 hw, edgesLeft, ghost>>

\* line 211: xSemaphoreTake(xUsuariosSem, 0)
SaidaTryTake ==
  /\ CanStep("Saida") /\ pc["Saida"] = "take"
  /\ xUsuariosSem' = SemTake(xUsuariosSem).count
  /\ Goto("Saida", "get")
  /\ UNCHANGED <<now, uptime, last_debounce_time, xEventSem,
                 g_num_usuarios_ativos, xDisplayMutex, result, count_read, delay,
                 hw, edgesLeft, ghost>>

\* --------------------------------------------------------------- vTaskReset
\* line 227: xSemaphoreTake(xResetSem, portMAX_DELAY) returns
ResetTake ==
  /\ CanStep("Reset") /\ pc["Reset"] = "wait"
  /\ xEventSem' = [xEventSem EXCEPT ![BOTAO_RESET] = SemTake(@).count]
  /\ raises' = [raises EXCEPT ![BOTAO_RESET] = 0]
  /\ refreshes' = [refreshes EXCEPT !["Reset"].taken = @ + 1]
  /\ Goto("Reset", "zero")
  /\ UNCHANGED <<now, uptime, last_debounce_time, xUsuariosSem,
                 g_num_usuarios_ativos, xDisplayMutex, result, count_read, delay,
                 hw, edgesLeft, prevEdge, accepted, initial, entriesSinceReset,
                 cooldownRaise, elapsed>>

\* line 229: g_num_usuarios_ativos = 0
ResetZero ==
  /\ CanStep("Reset") /\ pc["Reset"] = "zero"
  /\ g_num_usuarios_ativos' = 0
  /\ Goto("Reset", "count")
  /\ UNCHANGED <<now, uptime, last_debounce_time, xEventSem, xUsuariosSem,
                 xDisplayMutex, result, count_read, delay, hw, edgesLeft, ghost>>

\* lines 231 and 234: current_count = uxSemaphoreGetCount(xUsuariosSem)
ResetGetCount ==
  /\ CanStep("Reset") /\ pc["Reset"] = "count"
  /\ count_read' = [count_read EXCEPT !["Reset"] = xUsuariosSem]
  /\ Goto("Reset", "while")
  /\ UNCHANGED <<now, uptime, last_debounce_time, xEventSem, xUsuariosSem,
                 g_num_usuarios_ativos, xDisplayMutex, result, delay, hw,
                 edgesLeft, ghost>>

\* line 232: while (current_count > 0); leaving the loop ends the drain
ResetWhile ==
  /\ CanStep("Reset") /\ pc["Reset"] = "while"
  /\ IF count_read["Reset"] > 0
     THEN /\ Goto("Reset", "drain")
          /\ UNCHANGED entriesSinceReset
     ELSE /\ Goto("Reset", "tone")
          /\ entriesSinceReset' = 0
  /\ UNCHANGED <<now, uptime, last_debounce_time, xEventSem, xUsuariosSem,
                 g_num_usuarios_ativos, xDisplayMutex, result, count_read, delay,
                 hw, edgesLeft, prevEdge, accepted, raises, initial, cooldownRaise,
                 refreshes, elapsed>>

\* line 233: xSemaphoreTake(xUsuariosSem, 0)
ResetDrain ==
  /\ CanStep("Reset") /\ pc["Reset"] = "drain"
  /\ xUsuariosSem' = SemTake(xUsuariosSem).count
  /\ Goto("Reset", "count")
  /\ UNCHANGED <<now, uptime, last_debounce_time, xEventSem,
                 g_num_usuarios_ativos, xDisplayMutex, result, count_read, delay,
                 hw, edgesLeft, ghost>>

\* lines 238-244: tone, pause, tone; each sleep_ms holds the processor
ResetBeep ==
  /\ CanStep("Reset")
  /\ \/ /\ pc["Reset"] = "tone"
        /\ buzzer' = TOM_RESET_HZ
        /\ delay' = [delay EXCEPT !["Reset"] = TOM_RESET_MS]
        /\ Goto("Reset", "tone1")
     \/ /\ pc["Reset"] = "tone1"
        /\ buzzer' = 0
        /\ delay' = [delay EXCEPT !["Reset"] = PAUSA_RESET_MS]
        /\ Goto("Reset", "pause")
     \/ /\ pc["Reset"] = "pause"
        /\ buzzer' = TOM_RESET_HZ
        /\ delay' = [delay EXCEPT !["Reset"] = TOM_RESET_MS]
        /\ Goto("Reset", "tone2")
     \/ /\ pc["Reset"] = "tone2"
        /\ buzzer' = 0
        /\ UNCHANGED delay
        /\ Goto("Reset", "led157")
  /\ UNCHANGED <<now, uptime, last_debounce_time, xEventSem, xUsuariosSem,
                 g_num_usuarios_ativos, xDisplayMutex, result, count_read, led,
                 ssd, oled, edgesLeft, ghost>>

\* line 251: vTaskDelay(pdMS_TO_TICKS(500)) has expired
ResetCooldownEnd ==
  /\ CanStep("Reset") /\ pc["Reset"] = "cooldown"
  /\ Goto("Reset", "wait")
  /\ UNCHANGED <<now, uptime, last_debounce_time, xEventSem, xUsuariosSem,
                 g_num_usuarios_ativos, xDisplayMutex, result, count_read, delay,
                 hw, edgesLeft, ghost>>

\* ------------------------------------------------ atualizar_feedback_led_rgb
LedStepOffByOne(t) ==
  /\ CanStep(t)
  /\ LET n == g_num_usuarios_ativos
     IN  \/ /\ pc[t] = "led157"
            /\ IF n = 0
               THEN led' = "BLUE" /\ Goto(t, "disp136")
               ELSE UNCHANGED led /\ Goto(t, "led159a")
         \/ /\ pc[t] = "led159a"
            /\ UNCHANGED led
            /\ Goto(t, IF n > 0 THEN "led159b" ELSE "led161")
         \/ /\ pc[t] = "led159b"
            /\ IF n <= MAX_USUARIOS - 1
               THEN led' = "GREEN" /\ Goto(t, "disp136")
               ELSE UNCHANGED led /\ Goto(t, "led161")
         \/ /\ pc[t] = "led161"
            /\ led' = IF n = MAX_USUARIOS - 1 THEN "AMBER" ELSE "RED"
            /\ Goto(t, "disp136")
  /\ refreshes' = IF pc'[t] = "disp136"
                  THEN [refreshes EXCEPT ![t].led = @ + 1] ELSE refreshes
  /\ UNCHANGED <<now, uptime, last_debounce_time, xEventSem, xUsuariosSem,
                 g_num_usuarios_ativos, xDisplayMutex, result, count_read, delay,
                 buzzer, ssd, oled, edgesLeft, history, elapsed>>

\* each comparison reads the volatile g_num_usuarios_ativos again
LedStep(t) ==
  /\ CanStep(t)
  /\ LET n == g_num_usuarios_ativos
     IN  \/ /\ pc[t] = "led157"
            /\ IF n = 0
               THEN led' = "BLUE" /\ Goto(t, "disp136")
               ELSE UNCHANGED led /\ Goto(t, "led159a")
         \/ /\ pc[t] = "led159a"
            /\ UNCHANGED led
            /\ Goto(t, IF n > 0 THEN "led159b" ELSE "led161")
         \/ /\ pc[t] = "led159b"
            /\ IF n <= MAX_USUARIOS - 2
               THEN led' = "GREEN" /\ Goto(t, "disp136")
               ELSE UNCHANGED led /\ Goto(t, "led161")
         \/ /\ pc[t] = "led161"
            /\ led' = IF n = MAX_USUARIOS - 1 THEN "AMBER" ELSE "RED"
            /\ Goto(t, "disp136")
  /\ refreshes' = IF pc'[t] = "disp136"
                  THEN [refreshes EXCEPT ![t].led = @ + 1] ELSE refreshes
  /\ UNCHANGED <<now, uptime, last_debounce_time, xEventSem, xUsuariosSem,
                 g_num_usuarios_ativos, xDisplayMutex, result, count_read, delay,
                 buzzer, ssd, oled, edgesLeft, history, elapsed>>

\* ------------------------------------------------ atualizar_feedback_display
\* line 136: xSemaphoreTake(xDisplayMutex, portMAX_DELAY); line 137 clears
DisplayLock(t) ==
  /\ CanStep(t) /\ pc[t] = "disp136"
  /\ xDisplayMutex' = t
  /\ ssd' = [users |-> -1, status |-> ""]
  /\ Goto(t, "disp139")
  /\ UNCHANGED <<now, uptime, last_debounce_time, xEventSem, xUsuariosSem,
                 g_num_usuarios_ativos, result, count_read, delay, buzzer, led,
                 oled, edgesLeft, ghost>>

\* lines 139-148: three reads of g_num_usuarios_ativos
DisplayDraw(t) ==
  /\ CanStep(t)
  /\ LET n == g_num_usuarios_ativos
     IN  \/ /\ pc[t] = "disp139"
            /\ ssd' = [ssd EXCEPT !.users = n]
            /\ Goto(t, "disp142")
         \/ /\ pc[t] = "disp142"
            /\ IF n = 0
               THEN ssd' = [ssd EXCEPT !.status = "VACANT"] /\ Goto(t, "disp150")
               ELSE UNCHANGED ssd /\ Goto(t, "disp144")
         \/ /\ pc[t] = "disp144"
            /\ ssd' = [ssd EXCEPT !.status = IF n < MAX_USUARIOS THEN "OK" ELSE "FULL"]
            /\ Goto(t, "disp150")
  /\ UNCHANGED <<now, uptime, last_debounce_time, xEventSem, xUsuariosSem,
                 g_num_usuarios_ativos, xDisplayMutex, result, count_read, delay,
                 buzzer, led, oled, edgesLeft, ghost>>

DisplaySendNoGive(t) ==
  /\ CanStep(t) /\ pc[t] = "disp150"
  /\ oled' = ssd
  /\ refreshes' = [refreshes EXCEPT ![t].oled = @ + 1]
  /\ UNCHANGED xDisplayMutex
  /\ IF t = "Reset"
     THEN /\ Goto(t, "cooldown")
          /\ delay' = [delay EXCEPT ![t] = COOLDOWN_RESET_MS]
          /\ cooldownRaise' = FALSE
          /\ UNCHANGED result
     ELSE /\ Goto(t, "wait")
          /\ result' = IF t = "Entrada" THEN "none" ELSE result
          /\ UNCHANGED <<delay, cooldownRaise>>
  /\ UNCHANGED <<now, uptime, last_debounce_time, xEventSem, xUsuariosSem,
                 g_num_usuarios_ativos, count_read, buzzer, led, ssd, edgesLeft,
                 prevEdge, accepted, raises, initial, entriesSinceReset, elapsed>>

\* lines 150-151: ssd1306_send_data, xSemaphoreGive(xDisplayMutex), and the
\* return to the task's loop: Entrada and Saida wait again (result goes out of
\* scope), Reset starts vTaskDelay(500 ms) (line 251)
DisplaySend(t) ==
  /\ CanStep(t) /\ pc[t] = "disp150"
  /\ oled' = ssd
  /\ refreshes' = [refreshes EXCEPT ![t].oled = @ + 1]
  /\ xDisplayMutex' = "none"
  /\ IF t = "Reset"
     THEN /\ Goto(t, "cooldown")
          /\ delay' = [delay EXCEPT ![t] = COOLDOWN_RESET_MS]
          /\ cooldownRaise' = FALSE
          /\ UNCHANGED result
     ELSE /\ Goto(t, "wait")
          /\ result' = IF t = "Entrada" THEN "none" ELSE result
          /\ UNCHANGED <<delay, cooldownRaise>>
  /\ UNCHANGED <<now, uptime, last_debounce_time, xEventSem, xUsuariosSem,
                 g_num_usuarios_ativos, count_read, buzzer, led, ssd, edgesLeft,
                 prevEdge, accepted, raises, initial, entriesSinceReset, elapsed>>

\* -------------------------------------------------------------------- time
\* the time the clock advances by: short steps while a delay shorter than
\* LongTick is running, long steps otherwise
TickLength ==
  IF \E t \in Tasks : delay[t] > 0 /\ delay[t] < LongTick THEN TickMs ELSE LongTick

\* the clock advances while no task has an instruction to run: the tasks'
\* instructions take no time on the millisecond clock, sleep_ms and vTaskDelay
\* take the time they are given
Advance(d, limit) ==
  /\ \A t \in Tasks : ~CanStep(t)
  /\ uptime + d <= limit
  /\ now' = U32Add(now, d)
  /\ uptime' = uptime + d
  /\ delay' = [t \in Tasks |-> Max(0, delay[t] - d)]
  /\ elapsed' = [g \in Gpios |-> elapsed[g] + d]
  /\ UNCHANGED <<last_debounce_time, xEventSem, xUsuariosSem,
                 g_num_usuarios_ativos, xDisplayMutex, pc, result, count_read,
                 hw, edgesLeft, history, refreshes>>

Tick == Advance(TickLength, MaxTime)

PublishOf(t) == GetCount(t) \/ StoreCount(t)
FeedbackOf(t) == LedStep(t) \/ DisplayLock(t) \/ DisplayDraw(t) \/ DisplaySend(t)

Edge == \E gpio \in Gpios : gpio_irq_handler(gpio)
Entrada ==
  \/ EntradaTake \/ EntradaGive \/ EntradaIf \/ EntradaBeepEnd
Saida == SaidaTake \/ SaidaTryTake
Reset ==
  \/ ResetTake \/ ResetZero \/ ResetGetCount \/ ResetWhile \/ ResetDrain
  \/ ResetBeep \/ ResetCooldownEnd
Publish == \E t \in Tasks : PublishOf(t)
Feedback == \E t \in Tasks : FeedbackOf(t)

Next == Edge \/ Entrada \/ Saida \/ Reset \/ Publish \/ Feedback \/ Tick

Spec == Init /\ [][Next]_vars

\* --------------------------------------------- single-source specifications
OnlyEdges(gpio, n) ==
  [per |-> [g \in Gpios |-> IF g = gpio THEN n ELSE 0], total |-> n]

\* entry signals only, from an empty room
InitEntrada == InitWith({0}, OnlyEdges(BOTAO_ENTRADA, MaxEntradas))
TickEntrada == Advance(TickLength, MaxTimeEntrada)
NextEntrada ==
  \/ gpio_irq_handler(BOTAO_ENTRADA)
  \/ Entrada
  \/ PublishOf("Entrada")
  \/ FeedbackOf("Entrada")
  \/ TickEntrada
SpecEntrada == InitEntrada /\ [][NextEntrada]_vars

\* exit signals only, from any occupancy
InitSaida == InitWith(0..MAX_USUARIOS, OnlyEdges(BOTAO_SAIDA, MaxSaidas))
NextSaida ==
  \/ gpio_irq_handler(BOTAO_SAIDA)
  \/ Saida
  \/ PublishOf("Saida")
  \/ FeedbackOf("Saida")
  \/ Tick
SpecSaida == InitSaida /\ [][NextSaida]_vars

\* exit signals only, with the clock about to wrap: the timestamps hold
\* 2^32 - 100 and the clock is ahead of them by one of WrapGaps
WrapStamp == <<HALF - 1, HALF - 100>>
WrapGaps == {0, DEBOUNCE_DELAY_MS, DEBOUNCE_DELAY_MS + 1}
InitWrap ==
  InitAt(InitCounts, OnlyEdges(BOTAO_SAIDA, MaxSaidas), WrapStamp, WrapGaps)
SpecWrap == InitWrap /\ [][NextSaida]_vars

\* reset signals only
InitReset == InitWith(InitCounts, OnlyEdges(BOTAO_RESET, MaxResets))
NextReset ==
  \/ gpio_irq_handler(BOTAO_RESET)
  \/ Reset
  \/ FeedbackOf("Reset")
  \/ Tick
SpecReset == InitReset /\ [][NextReset]_vars

\* ------------------------------------------------ specification with fairness
\* past the horizon of the modelled clock no button is pressed any more, so
\* nothing reads the clock; the delays that are running still run out
Elapse ==
  /\ \A t \in Tasks : ~CanStep(t)
  /\ uptime + TickLength > MaxTime
  /\ \E t \in Tasks : delay[t] > 0
  /\ delay' = [t \in Tasks |-> Max(0, delay[t] - TickLength)]
  /\ edgesLeft' = [per |-> [g \in Gpios |-> 0], total |-> 0]
  /\ UNCHANGED <<now, uptime, last_debounce_time, xEventSem, xUsuariosSem,
                 g_num_usuarios_ativos, xDisplayMutex, pc, result, count_read,
                 hw, ghost>>

\* the instructions of one task
StepOf(t) ==
  \/ t = "Entrada" /\ Entrada
  \/ t = "Saida" /\ Saida
  \/ t = "Reset" /\ Reset
  \/ PublishOf(t)
  \/ FeedbackOf(t)

NextLive == Next \/ Elapse

\* the scheduler always runs a ready task of the highest priority and shares
\* the processor in time slices among ready tasks of equal priority
\* (configUSE_PREEMPTION, configUSE_TIME_SLICING), and time passes
Fairness ==
  /\ \A t \in Tasks : WF_vars(StepOf(t))
  /\ WF_vars(Tick \/ Elapse)

\* a full room: every path of the three tasks can be taken from it
InitLive ==
  InitWith({MAX_USUARIOS}, [per |-> [g \in Gpios |-> MaxEdges], total |-> MaxTotal])

SpecLive == InitLive /\ [][NextLive]_vars /\ Fairness

\* ------------------------------------------------------------------ claims
Idle(t) == pc[t] = "wait" /\ xEventSem[TaskSem(t)] = 0

\* C1: the occupancy counter and its published snapshot are always within
\* 0..MAX_USUARIOS.
C1_CounterInRange ==
  /\ xUsuariosSem \in 0..MAX_USUARIOS
  /\ g_num_usuarios_ativos \in 0..MAX_USUARIOS

\* C1 witness: the Entry Task has tried to enter a full room
C1_Witness ==
  /\ xUsuariosSem = MAX_USUARIOS /\ result = "pdFAIL"
  /\ g_num_usuarios_ativos = MAX_USUARIOS

\* C2: once the Reset Task has completed the drain, neither the counter nor the
\* snapshot holds more than the entries admitted since: an Entry or Exit action
\* that began before the reset puts no pre-reset value back.
C2_ResetTotal ==
  entriesSinceReset >= 0 =>
    /\ xUsuariosSem <= entriesSinceReset
    /\ g_num_usuarios_ativos <= entriesSinceReset

\* C3: each event channel holds at most one pending signal: it is pending iff
\* it was raised at least once since its task last consumed it, however many
\* raises there were.
C3_Coalesced ==
  \A g \in Gpios :
    /\ xEventSem[g] \in {0, 1}
    /\ xEventSem[g] = IF raises[g] > 0 THEN 1 ELSE 0

\* C3 witness: a channel raised twice before its task consumed the signal
C3_Witness == \E g \in Gpios : raises[g] >= 2 /\ xEventSem[g] = 1

\* the second of two edges at t1 and t2 arrives within the debounce window
WithinWindow(t1, t2) == ~U32Gt(U32Sub(t2, t1), DEBOUNCE_DELAY_MS)

\* this step is the dispatcher's, for an edge on g that follows an earlier edge
\* on g within the window
SecondEdge(g) ==
  /\ edgesLeft'.per[g] < edgesLeft.per[g]
  /\ prevEdge[g] # <<>>
  /\ WithinWindow(prevEdge[g][1], now)

\* C4 as stated: of two edges on a source within the window, exactly one
\* raises the channel.
C4_ExactlyOne ==
  [][\A g \in Gpios : SecondEdge(g) => (prevEdge[g][2] # prevEdge'[g][2])]_vars

\* C4 as amended: of two edges on a source within the window, the second is
\* rejected when the first was accepted; when the first was rejected, the
\* second is rejected too exactly when it is still within the window of the
\* source's last accepted edge (of the zero timestamp the system starts with).
C4_AtMostOne ==
  [][\A g \in Gpios : SecondEdge(g) =>
       /\ prevEdge[g][2] => ~prevEdge'[g][2]
       /\ ~prevEdge[g][2] =>
            (~prevEdge'[g][2] <=> WithinWindow(last_debounce_time[g], now))]_vars

\* C4 witness: an accepted edge was followed within the window by a rejected one
C4_Witness ==
  \E g \in Gpios :
    /\ accepted[g] = 1 /\ edgesLeft.per[g] = MaxEdges - 2
    /\ prevEdge[g] # <<>> /\ ~prevEdge[g][2]
    /\ WithinWindow(last_debounce_time[g], prevEdge[g][1])

\* C5: xSemaphoreGive(xUsuariosSem) by the Entry Task succeeds and adds exactly
\* 1 iff the counter is below MAX_USUARIOS; at MAX_USUARIOS it fails and leaves
\* the counter unchanged.
C5_TryEnter ==
  [][(pc["Entrada"] = "give" /\ pc'["Entrada"] = "get") =>
       IF xUsuariosSem < MAX_USUARIOS
       THEN result' = "pdPASS" /\ xUsuariosSem' = xUsuariosSem + 1
       ELSE result' = "pdFAIL" /\ xUsuariosSem' = xUsuariosSem]_vars

\* C5 witness: a give that failed at MAX_USUARIOS
C5_Witness ==
  pc["Entrada"] = "get" /\ result = "pdFAIL" /\ xUsuariosSem = MAX_USUARIOS

\* C6: xSemaphoreTake(xUsuariosSem, 0) by the Exit Task takes exactly 1 iff the
\* counter is above 0; at 0 it leaves the counter at 0, and the task goes on
\* without blocking.
C6_TryExit ==
  [][(pc["Saida"] = "take" /\ pc'["Saida"] # "take") =>
       /\ pc'["Saida"] = "get"
       /\ xUsuariosSem' = IF xUsuariosSem > 0 THEN xUsuariosSem - 1 ELSE 0]_vars

\* C6 witness: the Exit Task is past a take on a room that was always empty
C6_Witness ==
  /\ pc["Saida"] = "get" /\ xUsuariosSem = 0
  /\ initial = 0 /\ accepted[BOTAO_ENTRADA] = 0

\* C7: from an empty room, with entry signals only, once every signal is
\* serviced the counter is min(accepted entry signals, MAX_USUARIOS).
C7_EntrySequence ==
  ( /\ initial = 0
    /\ accepted[BOTAO_SAIDA] = 0 /\ accepted[BOTAO_RESET] = 0
    /\ Idle("Entrada") )
  => xUsuariosSem = Min(accepted[BOTAO_ENTRADA], MAX_USUARIOS)

\* C7 witness: one accepted entry signal more than the room holds, all serviced
C7_Witness ==
  /\ accepted[BOTAO_ENTRADA] = MAX_USUARIOS + 1
  /\ Idle("Entrada") /\ xUsuariosSem = MAX_USUARIOS

\* C8: from any occupancy, with exit signals only, once every signal is
\* serviced the counter is max(0, initial - accepted exit signals).
C8_ExitSequence ==
  ( /\ accepted[BOTAO_ENTRADA] = 0 /\ accepted[BOTAO_RESET] = 0
    /\ Idle("Saida") )
  => xUsuariosSem = Max(0, initial - accepted[BOTAO_SAIDA])

\* C8 witness: more accepted exit signals than occupants, all serviced
C8_Witness ==
  /\ initial > 0 /\ accepted[BOTAO_SAIDA] > initial
  /\ Idle("Saida") /\ xUsuariosSem = 0

\* C9: an entry signal serviced at MAX_USUARIOS leaves the counter unchanged
\* and sounds the rejection tone: whenever try_enter has failed, the test that
\* decides on the tone (line 186) finds the condition for it true.
C9_RejectionTone ==
  (pc["Entrada"] = "if" /\ result = "pdFAIL") => Rejected

\* C10: a reset signal raised during the cooldown delay is ignored: the Reset
\* Task never starts a reset action on a signal raised during the cooldown.
C10_CooldownIgnores == ~(pc["Reset"] = "zero" /\ cooldownRaise)

\* the Reset Task has a signal to serve or is serving it, up to the end of the
\* drain (lines 227-235)
ResetDraining ==
  \/ pc["Reset"] = "wait" /\ xEventSem[BOTAO_RESET] = 1
  \/ pc["Reset"] \in {"zero", "count", "while", "drain"}

\* C11: when a reset signal is pending while the Reset Task waits, the drain is
\* performed before the Entry or Exit Task takes any further step: from the
\* pending signal to the end of the drain neither task moves and only the
\* Reset Task changes the counter, also when an entry or exit signal is
\* pending or an Entry or Exit action is under way.
C11_ResetFirst ==
  [][ResetDraining =>
       /\ pc'["Entrada"] = pc["Entrada"] /\ pc'["Saida"] = pc["Saida"]
       /\ (xUsuariosSem' # xUsuariosSem => pc["Reset"] = "drain")]_vars

\* C11 witness: the drain of a full room has ended while the Entry Task, which
\* consumed its signal before the reset signal came, has still to give
C11_Witness ==
  /\ pc["Reset"] = "tone" /\ xUsuariosSem = 0 /\ initial = MAX_USUARIOS
  /\ pc["Entrada"] = "give"

\* C12: under fair scheduling every signal raised on a channel is eventually
\* consumed by the channel's task and every task that leaves its wait
\* eventually waits again; nothing stays blocked on the display mutex.
C12_Liveness ==
  /\ \A g \in Gpios : (xEventSem[g] = 1) ~> (xEventSem[g] = 0)
  /\ \A t \in Tasks : (pc[t] # "wait") ~> (pc[t] = "wait")

\* C12 witness: two signals were raised and consumed, one of them the reset
\* signal, and every task waits again, the Reset Task after its cooldown
C12_Witness ==
  /\ accepted[BOTAO_RESET] = 1
  /\ \E g \in Gpios \ {BOTAO_RESET} : accepted[g] = 1
  /\ \A t \in Tasks : Idle(t)
  /\ xDisplayMutex = "none"

\* the task is in the rendering section of atualizar_feedback_display
\* (lines 137-150)
InRender(t) == pc[t] \in {"disp139", "disp142", "disp144", "disp150"}

LabelFor(n) ==
  CASE n = 0 -> "VACANT"
    [] 0 < n /\ n < MAX_USUARIOS -> "OK"
    [] n = MAX_USUARIOS -> "FULL"

ColourFor(n) ==
  CASE n = 0 -> "BLUE"
    [] 0 < n /\ n <= MAX_USUARIOS - 2 -> "GREEN"
    [] n = MAX_USUARIOS - 1 -> "AMBER"
    [] n = MAX_USUARIOS -> "RED"

\* C14: for every occupancy n in 0..MAX_USUARIOS the feedback computed from n
\* is the label VACANT (0), OK (0 < n < MAX) or FULL (MAX), with the number n,
\* and the colour BLUE (0), GREEN (0 < n <= MAX-2), AMBER (MAX-1) or RED (MAX):
\* whenever the Entry Task, alone in changing the occupancy, has finished its
\* refresh, the LED and the display show these for the snapshot.
C14_FeedbackMapping ==
  Idle("Entrada") =>
    /\ g_num_usuarios_ativos \in 0..MAX_USUARIOS
    /\ led = ColourFor(g_num_usuarios_ativos)
    /\ oled = [users |-> g_num_usuarios_ativos,
               status |-> LabelFor(g_num_usuarios_ativos)]

\* C14 witness: the feedback drawn for MAX-1 occupants, where the label is
\* still OK and the colour is no longer GREEN
C14_Witness ==
  /\ Idle("Entrada") /\ accepted[BOTAO_ENTRADA] = MAX_USUARIOS - 1
  /\ g_num_usuarios_ativos = MAX_USUARIOS - 1
  /\ led = "AMBER" /\ oled.status = "OK"

\* this step is the dispatcher's, for an edge on g
EdgeOn(g) ==
  /\ edgesLeft'.per[g] = edgesLeft.per[g] - 1
  /\ edgesLeft'.total = edgesLeft.total - 1

\* C15: an invocation of the dispatcher for one source changes at most that
\* source's debounce timestamp and event channel; it changes neither the
\* counter, the snapshot, the display mutex, the tasks' positions nor another
\* source's timestamp or channel. Whether the edge is accepted depends on the
\* source's own timestamp only, and an accepted edge raises its own channel.
C15_DispatcherFrame ==
  [][\A g \in Gpios : EdgeOn(g) =>
       /\ \A h \in Gpios \ {g} :
            /\ last_debounce_time'[h] = last_debounce_time[h]
            /\ xEventSem'[h] = xEventSem[h]
       /\ UNCHANGED <<xUsuariosSem, g_num_usuarios_ativos, xDisplayMutex, pc,
                      result>>
       /\ IF WithinWindow(last_debounce_time[g], now)
          THEN /\ last_debounce_time'[g] = last_debounce_time[g]
               /\ xEventSem'[g] = xEventSem[g]
          ELSE /\ last_debounce_time'[g] = now
               /\ xEventSem'[g] = 1]_vars

\* C15 witness: edges on the entry and the exit source in the same
\* millisecond, both accepted, each channel raised
C15_Witness ==
  /\ accepted[BOTAO_ENTRADA] = 1 /\ accepted[BOTAO_SAIDA] = 1
  /\ last_debounce_time[BOTAO_ENTRADA] = last_debounce_time[BOTAO_SAIDA]
  /\ xEventSem[BOTAO_ENTRADA] = 1 /\ xEventSem[BOTAO_SAIDA] = 1

\* C16: the Entry Task sounds the rejection tone only for an entry whose
\* try_enter failed: whenever the 500 Hz tone sounds, the Entry Task is in the
\* sleep of line 190 and the give of the entry it is serving returned pdFAIL;
\* an entry that was admitted, also the one from MAX-1 to MAX, has no tone.
C16_ToneOnlyOnFailure ==
  (pc["Entrada"] = "beep" \/ buzzer = TOM_CHEIO_HZ) =>
    (pc["Entrada"] = "beep" /\ result = "pdFAIL")

\* C16 witness: the entry that filled the room is past the test of line 186
\* and no tone sounds
C16_Witness ==
  /\ pc["Entrada"] = "led157" /\ result = "pdPASS"
  /\ xUsuariosSem = MAX_USUARIOS /\ g_num_usuarios_ativos = MAX_USUARIOS
  /\ buzzer = 0

\* C17: an exit serviced at counter 0 leaves the counter at 0, the Exit Task
\* sounds no tone (a tone that sounds is the Entry Task's or the Reset
\* Task's), and the feedback is refreshed exactly once before the task waits
\* again; likewise every serviced entry, exit or reset signal ends with
\* exactly one refresh of the LED and one of the display: a task that waits
\* (or is in the reset cooldown) has made as many of each as it took signals.
C17_OneRefresh ==
  /\ (initial = 0 /\ accepted[BOTAO_ENTRADA] = 0) => xUsuariosSem = 0
  /\ buzzer # 0 => (pc["Entrada"] = "beep" \/ pc["Reset"] \in {"tone1", "tone2"})
  /\ \A t \in Tasks :
       pc[t] \in {"wait", "cooldown"} =>
         /\ refreshes[t].led = refreshes[t].taken
         /\ refreshes[t].oled = refreshes[t].taken

\* C17 witness: an exit signal was serviced with the room empty since the
\* start: one LED update and one display update, counter 0, no tone
C17_Witness ==
  /\ initial = 0 /\ accepted[BOTAO_ENTRADA] = 0 /\ accepted[BOTAO_RESET] = 0
  /\ Idle("Saida") /\ refreshes["Saida"] = [taken |-> 1, led |-> 1, oled |-> 1]
  /\ xUsuariosSem = 0 /\ g_num_usuarios_ativos = 0 /\ buzzer = 0
  /\ led = "BLUE" /\ oled = [users |-> 0, status |-> "VACANT"]

\* C18: the debounce test is safe against the wrap of the 32-bit clock: an
\* edge is accepted iff more than DEBOUNCE_DELAY_MS ms have really passed since
\* the source's timestamp, which is what (now - last) mod 2^32 measures, also
\* when the clock has wrapped in between; an accepted edge stores the clock in
\* the timestamp, a rejected one leaves the timestamp as it was.
C18_WrapSafe ==
  [][\A g \in Gpios : EdgeOn(g) =>
       /\ U32Sub(now, last_debounce_time[g]) = <<0, elapsed[g]>>
       /\ IF elapsed[g] > DEBOUNCE_DELAY_MS
          THEN /\ prevEdge'[g][2] /\ xEventSem'[g] = 1
               /\ last_debounce_time'[g] = now
          ELSE /\ ~prevEdge'[g][2] /\ xEventSem'[g] = xEventSem[g]
               /\ last_debounce_time'[g] = last_debounce_time[g]]_vars

\* C18 witness: an edge was accepted after the clock wrapped past a timestamp
\* taken before the wrap, and a later edge within the window was rejected
C18_Witness ==
  /\ accepted[BOTAO_SAIDA] = 1
  /\ last_debounce_time[BOTAO_SAIDA][1] = 0
  /\ prevEdge[BOTAO_SAIDA] # <<>> /\ ~prevEdge[BOTAO_SAIDA][2]

\* C19: whenever all three tasks wait and no channel is pending, the snapshot
\* equals the counter and the label and colour last shown are those for that
\* count, however the tasks preempted each other between reading the counter,
\* storing the snapshot, choosing the colour and drawing.
C19_QuiescentConsistency ==
  (\A t \in Tasks : Idle(t)) =>
    /\ g_num_usuarios_ativos = xUsuariosSem
    /\ led = ColourFor(xUsuariosSem)
    /\ oled = [users |-> xUsuariosSem, status |-> LabelFor(xUsuariosSem)]

\* C20: the buzzer is never left sounding: when the Entry and the Exit Task
\* wait and the Reset Task waits or is in its cooldown, the buzzer is stopped,
\* also after the Reset Task's tone preempted the Entry Task in the middle of
\* its rejection tone.
C20_BuzzerStopped ==
  ( /\ pc["Entrada"] = "wait" /\ pc["Saida"] = "wait"
    /\ pc["Reset"] \in {"wait", "cooldown"} )
  => buzzer = 0

\* C20 witness: in a full room a rejected entry started its tone, the reset
\* edge came TickMs later, in the middle of the tone, and now the Reset Task is
\* in its cooldown and the other two wait
C20_Witness ==
  /\ initial = MAX_USUARIOS
  /\ accepted[BOTAO_ENTRADA] = 1 /\ accepted[BOTAO_RESET] = 1
  /\ prevEdge[BOTAO_ENTRADA] # <<>> /\ prevEdge[BOTAO_RESET] # <<>>
  /\ U32Sub(prevEdge[BOTAO_RESET][1], prevEdge[BOTAO_ENTRADA][1]) = <<0, TickMs>>
  /\ pc["Entrada"] = "wait" /\ pc["Saida"] = "wait" /\ pc["Reset"] = "cooldown"
  /\ buzzer = 0

====
